---- MODULE Spec2Model ----
(***************************************************************************)
(* Model of the task orchestration of src/app.py (Whisper Transcriber):    *)
(* the in-memory `tasks` registry, the background worker                   *)
(* process_transcription, the cancel endpoint stop_task and the progress   *)
(* stream stream_progress / event_generator.                               *)
(*                                                                         *)
(* Execution model.  upload_file, stop_task and event_generator are        *)
(* `async def`: they run on the single event loop thread, so at most one   *)
(* of them is between two of its statements at any time (variable `loop`). *)
(* process_transcription is a plain `def` handed to BackgroundTasks, so it *)
(* runs on a thread-pool thread: its statements interleave with the        *)
(* statements of whichever handler the event loop is running.  Every       *)
(* action below is one read or one write of the shared `tasks` dict        *)
(* (together with the thread-local computation around it).                 *)
(***************************************************************************)
EXTENDS Integers, Sequences, FiniteSets, TLC

\* ---------------------------------------------------------------- bounds
MaxJobs == 1        \* uploads admitted in one run of the model
MaxSegs == 2        \* segments the engine yields at most for one job
MaxStreams == 1     \* progress streams opened in one run of the model

\* ------------------------------------------------------ program constants
MAX_UPLOAD_SIZE == 10 * 1024 * 1024
ProgressCap == 99
ProgressDone == 100

\* ------------------------------------------------------------ input sets
TaskIds == 1..MaxJobs                 \* ids uuid4() hands out, in order
ReqIds == 1..(MaxJobs + 1)            \* ids a client may name; the last never exists
StreamIds == 1..MaxStreams
UploadSizes == {1, MAX_UPLOAD_SIZE, MAX_UPLOAD_SIZE + 1}
Durations == {0, 2}                   \* info.duration
SegEnds == {1, 2}                     \* segment.end
SegTexts == {<<" ", "a">>}            \* segment.text, a sequence of characters

None == "None"
NoTask == [status |-> "absent"]
NoSnap == [status |-> "nosnap"]

TerminalStatus == {"completed", "error", "cancelled"}
Cancellable == {"queued", "processing"}

\* ------------------------------------------------------- pure functions
Min(a, b) == IF a < b THEN a ELSE b

\* (segment.end / total_duration) * 100 ; exact for the Durations used
CurrentProgress(end, total) == (end * 100) \div total

RECURSIVE LStrip(_)
LStrip(s) == IF s # <<>> /\ Head(s) = " " THEN LStrip(Tail(s)) ELSE s

RECURSIVE RStrip(_)
RStrip(s) == IF s # <<>> /\ s[Len(s)] = " " THEN RStrip(SubSeq(s, 1, Len(s) - 1)) ELSE s

\* str.strip()
Strip(s) == RStrip(LStrip(s))

RECURSIVE Join(_)
\* "".join(transcript_parts)
Join(parts) == IF parts = <<>> THEN <<>> ELSE Head(parts) \o Join(Tail(parts))

\* task.get("result") of a record without the key "result"
NoResult == [set |-> FALSE, transcript |-> <<>>]

\* the record upload_file stores for a new task; the keys "error" and "result"
\* are absent (read as None by task.get), "transcript" and "created_at" are
\* never read or written again and are left out
NewTask == [status |-> "queued", progress |-> 0, result |-> NoResult, error |-> None]

\* the worker's locals before it starts
NoLocals == [dur |-> 0, nseg |-> 0, parts |-> <<>>, seg |-> None, exc |-> None]

IdleLoop == [kind |-> "idle"]

NewStream == [pc |-> "closed", id |-> 0, last |-> NoSnap]

VARIABLES
  tasks,      \* the global dict `tasks`: id -> record, NoTask when absent
  files,      \* files[id]: the temp file tmp_path of upload id exists
  nextId,     \* the next id uuid4() returns
  wpc,        \* wpc[id]: the line process_transcription(id) is about to run
  wloc,       \* wloc[id]: its locals (total_duration, transcript_parts, segment, e)
  unlinks,    \* unlinks[id]: number of file_path.unlink calls made by the worker
  loop,       \* the handler the event loop is in the middle of
  streams,    \* streams[s]: the generator of progress stream s
  resp,       \* the last HTTP response sent
  cancelEarly \* cancelEarly[id]: a cancel was applied before the 2nd segment's check

vars == <<tasks, files, nextId, wpc, wloc, unlinks, loop, streams, resp, cancelEarly>>

Init ==
  /\ tasks = [i \in TaskIds |-> NoTask]
  /\ files = [i \in TaskIds |-> FALSE]
  /\ nextId = 1
  /\ wpc = [i \in TaskIds |-> "none"]
  /\ wloc = [i \in TaskIds |-> NoLocals]
  /\ unlinks = [i \in TaskIds |-> 0]
  /\ loop = IdleLoop
  /\ streams = [s \in StreamIds |-> NewStream]
  /\ resp = [op |-> "none", id |-> 0, code |-> 0]
  /\ cancelEarly = [i \in TaskIds |-> FALSE]

\* the initial state with the ids `ids` available to uuid4() and the progress
\* streams `ss` available to clients
InitOver(ids, ss) ==
  /\ tasks = [i \in ids |-> NoTask]
  /\ files = [i \in ids |-> FALSE]
  /\ nextId = 1
  /\ wpc = [i \in ids |-> "none"]
  /\ wloc = [i \in ids |-> NoLocals]
  /\ unlinks = [i \in ids |-> 0]
  /\ loop = IdleLoop
  /\ streams = [s \in ss |-> NewStream]
  /\ resp = [op |-> "none", id |-> 0, code |-> 0]
  /\ cancelEarly = [i \in ids |-> FALSE]

Exists(id) == id \in DOMAIN tasks /\ tasks[id] # NoTask

\* number of cancellation checks (line 350) the worker of id has performed
ChecksDone(id) == IF wpc[id] = "l350" THEN wloc[id].nseg - 1 ELSE wloc[id].nseg

\* ------------------------------------------------------------ upload_file
\* lines 392-395: the suffix is not an allowed one
UploadInvalidType ==
  /\ loop = IdleLoop
  /\ resp' = [op |-> "upload", id |-> 0, code |-> 400]
  /\ UNCHANGED <<tasks, files, nextId, wpc, wloc, unlinks, loop, streams, cancelEarly>>

\* UploadFile with the task registered before the size of the upload is checked
UploadFile_RegistersFirst(size) ==
  /\ loop = IdleLoop
  /\ nextId \in DOMAIN tasks
  /\ nextId' = nextId + 1
  /\ tasks' = [tasks EXCEPT ![nextId] = NewTask]
  /\ IF size > MAX_UPLOAD_SIZE
       THEN /\ resp' = [op |-> "upload", id |-> nextId, code |-> 413]
            /\ UNCHANGED <<files, wpc>>
       ELSE /\ files' = [files EXCEPT ![nextId] = TRUE]
            /\ wpc' = [wpc EXCEPT ![nextId] = "l339"]
            /\ resp' = [op |-> "upload", id |-> nextId, code |-> 202]
  /\ UNCHANGED <<wloc, unlinks, loop, streams, cancelEarly>>

\* UploadFile with an id generator that returns the same id again
UploadFile_SameIdAgain(size) ==
  /\ loop = IdleLoop
  /\ nextId \in DOMAIN tasks
  /\ nextId' = nextId
  /\ IF size > MAX_UPLOAD_SIZE
       THEN /\ resp' = [op |-> "upload", id |-> nextId, code |-> 413]
            /\ UNCHANGED <<tasks, files, wpc>>
       ELSE /\ tasks' = [tasks EXCEPT ![nextId] = NewTask]
            /\ files' = [files EXCEPT ![nextId] = TRUE]
            /\ wpc' = [wpc EXCEPT ![nextId] = "l339"]
            /\ resp' = [op |-> "upload", id |-> nextId, code |-> 202]
  /\ UNCHANGED <<wloc, unlinks, loop, streams, cancelEarly>>

\* lines 398-423 for an upload of `size` bytes in total: the chunk loop adds
\* every chunk to total_size, so it raises 413 iff size > MAX_UPLOAD_SIZE
UploadFile(size) ==
  /\ loop = IdleLoop
  /\ nextId \in DOMAIN tasks
  /\ nextId' = nextId + 1
  /\ IF size > MAX_UPLOAD_SIZE
       THEN /\ resp' = [op |-> "upload", id |-> nextId, code |-> 413]
            /\ UNCHANGED <<tasks, files, wpc>>
       ELSE /\ tasks' = [tasks EXCEPT ![nextId] = NewTask]
            /\ files' = [files EXCEPT ![nextId] = TRUE]
            /\ wpc' = [wpc EXCEPT ![nextId] = "l339"]
            /\ resp' = [op |-> "upload", id |-> nextId, code |-> 202]
  /\ UNCHANGED <<wloc, unlinks, loop, streams, cancelEarly>>

\* --------------------------------------------------- process_transcription
\* Raise without the except clause: the exception leaves the try block through
\* the finally block only
Raise_NotCaught(id, msg) ==
  /\ wpc' = [wpc EXCEPT ![id] = "l377"]
  /\ wloc' = [wloc EXCEPT ![id].exc = msg]

\* an exception raised inside the try block: control goes to line 373
Raise(id, msg) ==
  /\ wpc' = [wpc EXCEPT ![id] = "l373"]
  /\ wloc' = [wloc EXCEPT ![id].exc = msg]

\* line 339: tasks[task_id]["status"] = "processing"
WorkerStart(id) ==
  /\ wpc[id] = "l339"
  /\ tasks' = [tasks EXCEPT ![id].status = "processing"]
  /\ wpc' = [wpc EXCEPT ![id] = "l341"]
  /\ UNCHANGED <<files, nextId, wloc, unlinks, loop, streams, resp, cancelEarly>>

\* line 341: get_model() returns or raises
WorkerGetModel(id) ==
  /\ wpc[id] = "l341"
  /\ \/ /\ wpc' = [wpc EXCEPT ![id] = "l344"]
        /\ UNCHANGED wloc
     \/ Raise(id, "load")
  /\ UNCHANGED <<tasks, files, nextId, unlinks, loop, streams, resp, cancelEarly>>

\* lines 344-347 for an engine whose info.duration is one of `durs`:
\* model.transcribe returns (segments, info) or raises
WorkerTranscribeFrom(id, durs) ==
  /\ wpc[id] = "l344"
  /\ \/ \E d \in durs :
          /\ wloc' = [wloc EXCEPT ![id].dur = d, ![id].parts = <<>>]
          /\ wpc' = [wpc EXCEPT ![id] = "l348"]
     \/ Raise(id, "transcribe")
  /\ UNCHANGED <<tasks, files, nextId, unlinks, loop, streams, resp, cancelEarly>>

\* lines 344-347
WorkerTranscribe(id) == WorkerTranscribeFrom(id, Durations)

\* the segments the engine may yield
Segments == [end : SegEnds, text : SegTexts]

\* line 348 for an engine that yields at most `max` segments, each one of
\* `segs`: the for loop asks the engine for the next segment; the engine
\* yields one, is exhausted, or raises
WorkerNextSegmentFrom(id, segs, max) ==
  /\ wpc[id] = "l348"
  /\ \/ /\ wloc[id].nseg < max
        /\ \E g \in segs :
             wloc' = [wloc EXCEPT ![id].seg = g, ![id].nseg = @ + 1]
        /\ wpc' = [wpc EXCEPT ![id] = "l350"]
     \/ /\ wpc' = [wpc EXCEPT ![id] = "l362"]
        /\ UNCHANGED wloc
     \/ Raise(id, "segment")
  /\ UNCHANGED <<tasks, files, nextId, unlinks, loop, streams, resp, cancelEarly>>

\* line 348
WorkerNextSegment(id) == WorkerNextSegmentFrom(id, Segments, MaxSegs)

\* WorkerCheckCancel with the `return` leaving the function without running the
\* finally block
WorkerCheckCancel_SkipsFinally(id) ==
  /\ wpc[id] = "l350"
  /\ wpc' = [wpc EXCEPT ![id] = IF tasks[id].status = "cancelled" THEN "done" ELSE "l354"]
  /\ UNCHANGED <<tasks, files, nextId, wloc, unlinks, loop, streams, resp, cancelEarly>>

\* WorkerCheckCancel with `continue` in place of `return`: the cancelled
\* segment is skipped and the loop goes on
WorkerCheckCancel_Continues(id) ==
  /\ wpc[id] = "l350"
  /\ wpc' = [wpc EXCEPT ![id] = IF tasks[id].status = "cancelled" THEN "l348" ELSE "l354"]
  /\ UNCHANGED <<tasks, files, nextId, wloc, unlinks, loop, streams, resp, cancelEarly>>

\* WorkerCheckCancel that waits, once the job is cancelled, for a status that
\* never comes instead of returning
WorkerCheckCancel_Waits(id) ==
  /\ wpc[id] = "l350"
  /\ tasks[id].status # "cancelled"
  /\ wpc' = [wpc EXCEPT ![id] = "l354"]
  /\ UNCHANGED <<tasks, files, nextId, wloc, unlinks, loop, streams, resp, cancelEarly>>

\* lines 350-352: the cancellation check; `return` goes to the finally block
WorkerCheckCancel(id) ==
  /\ wpc[id] = "l350"
  /\ wpc' = [wpc EXCEPT ![id] = IF tasks[id].status = "cancelled" THEN "l377" ELSE "l354"]
  /\ UNCHANGED <<tasks, files, nextId, wloc, unlinks, loop, streams, resp, cancelEarly>>

\* ProgressValue without the min(99, ...) of line 358
ProgressValue_NoCap(end, total) == CurrentProgress(end, total)

\* the value line 358 stores
ProgressValue(end, total) == Min(ProgressCap, CurrentProgress(end, total))

\* lines 354-358: accumulate the segment and update progress
WorkerAccumulate(id) ==
  /\ wpc[id] = "l354"
  /\ wloc' = [wloc EXCEPT ![id].parts = Append(@, wloc[id].seg.text)]
  /\ IF wloc[id].dur > 0
       THEN tasks' = [tasks EXCEPT ![id].progress = ProgressValue(wloc[id].seg.end, wloc[id].dur)]
       ELSE UNCHANGED tasks
  /\ wpc' = [wpc EXCEPT ![id] = "l348"]
  /\ UNCHANGED <<files, nextId, unlinks, loop, streams, resp, cancelEarly>>

\* lines 360-362: full_text is computed, then status is set
WorkerSetCompleted(id) ==
  /\ wpc[id] = "l362"
  /\ tasks' = [tasks EXCEPT ![id].status = "completed"]
  /\ wpc' = [wpc EXCEPT ![id] = "l363"]
  /\ UNCHANGED <<files, nextId, wloc, unlinks, loop, streams, resp, cancelEarly>>

\* line 363
WorkerSetProgressDone(id) ==
  /\ wpc[id] = "l363"
  /\ tasks' = [tasks EXCEPT ![id].progress = ProgressDone]
  /\ wpc' = [wpc EXCEPT ![id] = "l364"]
  /\ UNCHANGED <<files, nextId, wloc, unlinks, loop, streams, resp, cancelEarly>>

\* ResultOf without the .strip() of line 360
ResultOf_NoStrip(parts) == [set |-> TRUE, transcript |-> Join(parts)]

\* the dict of lines 364-369; language, device and size_mb do not depend on
\* the state modelled here and are left out
ResultOf(parts) == [set |-> TRUE, transcript |-> Strip(Join(parts))]

\* WorkerSetResult with the assignment to tasks[task_id]["result"] lost
WorkerSetResult_NoWrite(id) ==
  /\ wpc[id] = "l364"
  /\ wpc' = [wpc EXCEPT ![id] = "l377"]
  /\ UNCHANGED <<tasks, files, nextId, wloc, unlinks, loop, streams, resp, cancelEarly>>

\* lines 364-369
WorkerSetResult(id) ==
  /\ wpc[id] = "l364"
  /\ tasks' = [tasks EXCEPT ![id].result = ResultOf(wloc[id].parts)]
  /\ wpc' = [wpc EXCEPT ![id] = "l377"]
  /\ UNCHANGED <<files, nextId, wloc, unlinks, loop, streams, resp, cancelEarly>>

\* line 373
WorkerSetErrorStatus(id) ==
  /\ wpc[id] = "l373"
  /\ tasks' = [tasks EXCEPT ![id].status = "error"]
  /\ wpc' = [wpc EXCEPT ![id] = "l374"]
  /\ UNCHANGED <<files, nextId, wloc, unlinks, loop, streams, resp, cancelEarly>>

\* line 374
WorkerSetError(id) ==
  /\ wpc[id] = "l374"
  /\ tasks' = [tasks EXCEPT ![id].error = wloc[id].exc]
  /\ wpc' = [wpc EXCEPT ![id] = "l377"]
  /\ UNCHANGED <<files, nextId, wloc, unlinks, loop, streams, resp, cancelEarly>>

\* WorkerCleanup that also drops the job's entry from the registry
WorkerCleanup_RemovesJob(id) ==
  /\ wpc[id] = "l377"
  /\ files' = [files EXCEPT ![id] = FALSE]
  /\ unlinks' = [unlinks EXCEPT ![id] = @ + 1]
  /\ wpc' = [wpc EXCEPT ![id] = "done"]
  /\ tasks' = [tasks EXCEPT ![id] = NoTask]
  /\ UNCHANGED <<nextId, wloc, loop, streams, resp, cancelEarly>>

\* lines 375-377: finally: file_path.unlink(missing_ok=True)
WorkerCleanup(id) ==
  /\ wpc[id] = "l377"
  /\ files' = [files EXCEPT ![id] = FALSE]
  /\ unlinks' = [unlinks EXCEPT ![id] = @ + 1]
  /\ wpc' = [wpc EXCEPT ![id] = "done"]
  /\ UNCHANGED <<tasks, nextId, wloc, loop, streams, resp, cancelEarly>>

Worker(id) ==
  \/ WorkerStart(id)
  \/ WorkerGetModel(id)
  \/ WorkerTranscribe(id)
  \/ WorkerNextSegment(id)
  \/ WorkerCheckCancel(id)
  \/ WorkerAccumulate(id)
  \/ WorkerSetCompleted(id)
  \/ WorkerSetProgressDone(id)
  \/ WorkerSetResult(id)
  \/ WorkerSetErrorStatus(id)
  \/ WorkerSetError(id)
  \/ WorkerCleanup(id)

\* ---------------------------------------------------------------- stop_task
\* lines 428-429: unknown id
StopNotFound(id) ==
  /\ loop = IdleLoop
  /\ ~Exists(id)
  /\ resp' = [op |-> "stop", id |-> id, code |-> 404]
  /\ UNCHANGED <<tasks, files, nextId, wpc, wloc, unlinks, loop, streams, cancelEarly>>

\* StopTask without the status test of line 432: every existing job is cancelled
StopTask_NoStatusTest(id) ==
  /\ loop = IdleLoop
  /\ Exists(id)
  /\ loop' = [kind |-> "stop", id |-> id]
  /\ UNCHANGED <<tasks, files, nextId, wpc, wloc, unlinks, streams, resp, cancelEarly>>

\* lines 428-432 and 435: the handler reads the status; when it is not
\* queued/processing it answers at once, otherwise it goes on to line 433
StopTask(id) ==
  /\ loop = IdleLoop
  /\ Exists(id)
  /\ IF tasks[id].status \in Cancellable
       THEN /\ loop' = [kind |-> "stop", id |-> id]
            /\ UNCHANGED resp
       ELSE /\ resp' = [op |-> "stop", id |-> id, code |-> 200]
            /\ UNCHANGED loop
  /\ UNCHANGED <<tasks, files, nextId, wpc, wloc, unlinks, streams, cancelEarly>>

\* StopWrite that also resets the progress of the cancelled job
StopWrite_ResetsProgress(id) ==
  /\ loop = [kind |-> "stop", id |-> id]
  /\ tasks' = [tasks EXCEPT ![id].status = "cancelled", ![id].progress = 0]
  /\ cancelEarly' = [cancelEarly EXCEPT ![id] = @ \/ ChecksDone(id) < 2]
  /\ resp' = [op |-> "stop", id |-> id, code |-> 200]
  /\ loop' = IdleLoop
  /\ UNCHANGED <<files, nextId, wpc, wloc, unlinks, streams>>

\* lines 433-435: the write of "cancelled" and the answer
StopWrite(id) ==
  /\ loop = [kind |-> "stop", id |-> id]
  /\ tasks' = [tasks EXCEPT ![id].status = "cancelled"]
  /\ cancelEarly' = [cancelEarly EXCEPT ![id] = @ \/ ChecksDone(id) < 2]
  /\ resp' = [op |-> "stop", id |-> id, code |-> 200]
  /\ loop' = IdleLoop
  /\ UNCHANGED <<files, nextId, wpc, wloc, unlinks, streams>>

\* ----------------------------------------- stream_progress, event_generator
\* lines 440-441: unknown id
StreamNotFound(id) ==
  /\ loop = IdleLoop
  /\ ~Exists(id)
  /\ resp' = [op |-> "progress", id |-> id, code |-> 404]
  /\ UNCHANGED <<tasks, files, nextId, wpc, wloc, unlinks, loop, streams, cancelEarly>>

\* lines 440-461: the streaming response is created for an existing id
StreamProgress(s, id) ==
  /\ loop = IdleLoop
  /\ Exists(id)
  /\ streams[s].pc = "closed"
  /\ streams' = [streams EXCEPT ![s] = [pc |-> "l445", id |-> id, last |-> NoSnap]]
  /\ resp' = [op |-> "progress", id |-> id, code |-> 200]
  /\ UNCHANGED <<tasks, files, nextId, wpc, wloc, unlinks, loop, cancelEarly>>

\* lines 445-449: task = tasks.get(task_id); the dict literal reads status
GenReadStatus(s) ==
  /\ loop = IdleLoop
  /\ streams[s].pc = "l445"
  /\ IF Exists(streams[s].id)
       THEN loop' = [kind |-> "gen", s |-> s, pc |-> "l450",
                     snap |-> [status |-> tasks[streams[s].id].status]]
       ELSE loop' = IdleLoop
  /\ streams' = [streams EXCEPT ![s].pc = IF Exists(streams[s].id) THEN "running" ELSE "ended"]
  /\ UNCHANGED <<tasks, files, nextId, wpc, wloc, unlinks, resp, cancelEarly>>

\* line 450
GenReadProgress(s) ==
  /\ loop.kind = "gen" /\ loop.s = s /\ loop.pc = "l450"
  /\ loop' = [loop EXCEPT !.pc = "l451",
                          !.snap = [status |-> loop.snap.status,
                                    progress |-> tasks[streams[s].id].progress]]
  /\ UNCHANGED <<tasks, files, nextId, wpc, wloc, unlinks, streams, resp, cancelEarly>>

\* line 451
GenReadError(s) ==
  /\ loop.kind = "gen" /\ loop.s = s /\ loop.pc = "l451"
  /\ loop' = [loop EXCEPT !.pc = "l452",
                          !.snap = [status |-> loop.snap.status,
                                    progress |-> loop.snap.progress,
                                    error |-> tasks[streams[s].id].error]]
  /\ UNCHANGED <<tasks, files, nextId, wpc, wloc, unlinks, streams, resp, cancelEarly>>

\* lines 452-454: result is read, the snapshot is serialised and yielded
GenYield(s) ==
  /\ loop.kind = "gen" /\ loop.s = s /\ loop.pc = "l452"
  /\ streams' = [streams EXCEPT ![s].pc = "l456",
                                ![s].last = [status |-> loop.snap.status,
                                             progress |-> loop.snap.progress,
                                             error |-> loop.snap.error,
                                             result |-> tasks[streams[s].id].result]]
  /\ loop' = IdleLoop
  /\ UNCHANGED <<tasks, files, nextId, wpc, wloc, unlinks, resp, cancelEarly>>

\* lines 456-459: the generator is resumed, tests the status, and either
\* ends or sleeps before the next round
GenTest(s) ==
  /\ loop = IdleLoop
  /\ streams[s].pc = "l456"
  /\ streams' = [streams EXCEPT ![s].pc =
                   IF tasks[streams[s].id].status \in TerminalStatus THEN "ended" ELSE "l445"]
  /\ UNCHANGED <<tasks, files, nextId, wpc, wloc, unlinks, loop, resp, cancelEarly>>

\* ------------------------------------------------------------ specification
Next ==
  \/ UploadInvalidType
  \/ \E size \in UploadSizes : UploadFile(size)
  \/ \E id \in TaskIds : Worker(id)
  \/ \E id \in ReqIds : StopNotFound(id)
  \/ \E id \in ReqIds : StopTask(id)
  \/ \E id \in TaskIds : StopWrite(id)
  \/ \E id \in ReqIds : StreamNotFound(id)
  \/ \E s \in StreamIds, id \in ReqIds : StreamProgress(s, id)
  \/ \E s \in StreamIds : GenReadStatus(s)
  \/ \E s \in StreamIds : GenReadProgress(s)
  \/ \E s \in StreamIds : GenReadError(s)
  \/ \E s \in StreamIds : GenYield(s)
  \/ \E s \in StreamIds : GenTest(s)

Spec == Init /\ [][Next]_vars

\* the thread pool runs every worker it was given: a worker that can take a
\* step eventually takes it
FairSpec == Init /\ [][Next]_vars /\ \A id \in TaskIds : WF_vars(Worker(id))

\* the steps of the system in which no client sends a cancel request
NextNoCancel ==
  \/ UploadInvalidType
  \/ \E size \in UploadSizes : UploadFile(size)
  \/ \E id \in TaskIds : Worker(id)
  \/ \E id \in ReqIds : StreamNotFound(id)
  \/ \E s \in StreamIds, id \in ReqIds : StreamProgress(s, id)
  \/ \E s \in StreamIds : GenReadStatus(s)
  \/ \E s \in StreamIds : GenReadProgress(s)
  \/ \E s \in StreamIds : GenReadError(s)
  \/ \E s \in StreamIds : GenYield(s)
  \/ \E s \in StreamIds : GenTest(s)

\* the system when stop_task is never called
SpecNoCancel == Init /\ [][NextNoCancel]_vars

\* the engine of the 10-second scenario: three segments ending at 3, 6 and 10
ScenarioSegs ==
  << [end |-> 3, text |-> <<" ", "a">>],
     [end |-> 6, text |-> <<" ", "b">>],
     [end |-> 10, text |-> <<"c", " ">>] >>

ScenarioDurations == {10}

\* line 341 when get_model() does not raise
ScenarioGetModel(id) == WorkerGetModel(id) /\ wpc'[id] # "l373"

\* lines 344-347 when the engine reports the scenario's duration
ScenarioTranscribe(id) ==
  WorkerTranscribeFrom(id, ScenarioDurations) /\ wpc'[id] # "l373"

\* line 348 when the engine yields the scenario's segments in order and then
\* is exhausted
ScenarioNextSegment(id) ==
  /\ WorkerNextSegmentFrom(id, {ScenarioSegs[k] : k \in DOMAIN ScenarioSegs}, Len(ScenarioSegs))
  /\ wpc'[id] # "l373"
  /\ (wpc'[id] = "l350" => wloc'[id].seg = ScenarioSegs[wloc'[id].nseg])
  /\ (wpc'[id] = "l362" => wloc[id].nseg = Len(ScenarioSegs))

ScenarioWorker(id) ==
  \/ WorkerStart(id)
  \/ ScenarioGetModel(id)
  \/ ScenarioTranscribe(id)
  \/ ScenarioNextSegment(id)
  \/ WorkerCheckCancel(id)
  \/ WorkerAccumulate(id)
  \/ WorkerSetCompleted(id)
  \/ WorkerSetProgressDone(id)
  \/ WorkerSetResult(id)
  \/ WorkerCleanup(id)

\* the steps of the scenario: no cancel request, no engine error
NextScenario ==
  \/ UploadInvalidType
  \/ \E size \in UploadSizes : UploadFile(size)
  \/ \E id \in TaskIds : ScenarioWorker(id)
  \/ \E id \in ReqIds : StreamNotFound(id)
  \/ \E s \in StreamIds, id \in ReqIds : StreamProgress(s, id)
  \/ \E s \in StreamIds : GenReadStatus(s)
  \/ \E s \in StreamIds : GenReadProgress(s)
  \/ \E s \in StreamIds : GenReadError(s)
  \/ \E s \in StreamIds : GenYield(s)
  \/ \E s \in StreamIds : GenTest(s)

SpecScenario == Init /\ [][NextScenario]_vars

\* one more upload than in Spec, so that a second job can be submitted
UploadIds == 1..(MaxJobs + 1)

InitUploads == InitOver(UploadIds, StreamIds)

\* the steps of uploads and of their workers
NextUploads ==
  \/ UploadInvalidType
  \/ \E size \in UploadSizes : UploadFile(size)
  \/ \E id \in UploadIds : Worker(id)

\* repeated submission: uploads and the workers they start
SpecUploads == InitUploads /\ [][NextUploads]_vars

\* one more progress stream than in Spec, so that two streams can be open on
\* the same job
ObserverIds == 1..(MaxStreams + 1)

InitObservers == InitOver(TaskIds, ObserverIds)

NextObservers ==
  \/ UploadInvalidType
  \/ \E size \in UploadSizes : UploadFile(size)
  \/ \E id \in TaskIds : Worker(id)
  \/ \E id \in ReqIds : StopNotFound(id)
  \/ \E id \in ReqIds : StopTask(id)
  \/ \E id \in TaskIds : StopWrite(id)
  \/ \E id \in ReqIds : StreamNotFound(id)
  \/ \E s \in ObserverIds, id \in ReqIds : StreamProgress(s, id)
  \/ \E s \in ObserverIds : GenReadStatus(s)
  \/ \E s \in ObserverIds : GenReadProgress(s)
  \/ \E s \in ObserverIds : GenReadError(s)
  \/ \E s \in ObserverIds : GenYield(s)
  \/ \E s \in ObserverIds : GenTest(s)

\* the system with two observers
SpecObservers == InitObservers /\ [][NextObservers]_vars

\* ------------------------------------------------------------------ claims
AllowedTransitions ==
  { <<"queued", "processing">>, <<"queued", "cancelled">>,
    <<"processing", "completed">>, <<"processing", "error">>,
    <<"processing", "cancelled">> }

\* C1: in every step, the status of every job either stays as it is or moves
\* along queued -> processing -> {completed, error, cancelled} or
\* queued -> cancelled; in particular a terminal status never changes.
C1_StatusFollowsStateMachine ==
  [][\A id \in TaskIds :
       Exists(id) =>
         \/ tasks'[id].status = tasks[id].status
         \/ <<tasks[id].status, tasks'[id].status>> \in AllowedTransitions]_vars

\* C2: a progress stream that has ended has emitted, as its last snapshot, a
\* snapshot whose status is terminal.
C2_EndedStreamSawTerminal ==
  \A s \in StreamIds :
    streams[s].pc = "ended" => streams[s].last.status \in TerminalStatus

\* C3: when a cancel was applied before the worker's cancellation check for
\* the second segment, the finished job is cancelled, has no result and its
\* artifact file is deleted.
C3_EarlyCancelIsFinal ==
  \A id \in TaskIds :
    (cancelEarly[id] /\ wpc[id] = "done") =>
       /\ tasks[id].status = "cancelled"
       /\ ~tasks[id].result.set
       /\ ~files[id]

\* C4: result is set only if status is completed and error is set only if
\* status is error.
C4_ResultErrorOnlyInTheirStatus ==
  \A id \in TaskIds :
    Exists(id) =>
       /\ (tasks[id].result.set => tasks[id].status = "completed")
       /\ (tasks[id].error # None => tasks[id].status = "error")

C6_ProgressDoneIffCompleted ==
  \A id \in TaskIds :
    Exists(id) => (tasks[id].progress = ProgressDone <=> tasks[id].status = "completed")

\* C7: the stored progress never decreases from one state to the next.
C7_ProgressNeverDecreases ==
  [][\A id \in TaskIds : Exists(id) => tasks'[id].progress >= tasks[id].progress]_vars

\* C8: a step of the worker taken while the status is terminal leaves the job
\* record unchanged.
C8_NoWorkerWriteAfterTerminal ==
  [][\A id \in TaskIds :
       (Exists(id) /\ tasks[id].status \in TerminalStatus /\ wpc'[id] # wpc[id])
          => tasks'[id] = tasks[id]]_vars

\* the worker of id is running or has finished
WorkerStarted(id) == wpc[id] # "none"

\* C9: while the worker runs the artifact exists and has not been unlinked;
\* when the worker has ended the artifact is gone and was unlinked exactly
\* once; and the unlink is the worker's last step (a finished worker takes no
\* step, and the unlink step writes nothing to the job record).
C9_ArtifactDeletedOnceAtEnd ==
  /\ [](\A id \in TaskIds :
          /\ (wpc[id] = "done" => ~files[id] /\ unlinks[id] = 1)
          /\ (WorkerStarted(id) /\ wpc[id] # "done" => files[id] /\ unlinks[id] = 0))
  /\ [][\A id \in TaskIds :
          /\ (wpc[id] = "done" => wpc'[id] = "done")
          /\ (unlinks'[id] # unlinks[id] => wpc'[id] = "done" /\ tasks'[id] = tasks[id])]_vars

C9_Witness ==
  \E id \in TaskIds :
    /\ wpc[id] = "done"
    /\ tasks[id].status = "cancelled"
    /\ ~tasks[id].result.set
    /\ ~files[id]
    /\ unlinks[id] = 1

\* a cancel request for id enters stop_task
StopRequest(id) == StopNotFound(id) \/ StopTask(id)

\* C10: a cancel request that finds the job terminal answers 200, leaves the
\* record as it is and performs no later write (the handler is finished); a
\* cancel request for an id that is not in the registry answers 404 and
\* changes no job record.
C10_CancelOfTerminalOrUnknown ==
  [][\A id \in ReqIds :
       StopRequest(id) =>
          /\ (Exists(id) /\ tasks[id].status \in TerminalStatus =>
                /\ resp' = [op |-> "stop", id |-> id, code |-> 200]
                /\ tasks' = tasks
                /\ loop' = IdleLoop)
          /\ (~Exists(id) =>
                /\ resp' = [op |-> "stop", id |-> id, code |-> 404]
                /\ tasks' = tasks
                /\ loop' = IdleLoop)]_vars

\* a cancel request was answered 200 for a completed job that no cancel ever
\* wrote to
C10_Witness ==
  \E id \in TaskIds :
    /\ resp = [op |-> "stop", id |-> id, code |-> 200]
    /\ wpc[id] = "done"
    /\ tasks[id].status = "completed"
    /\ wloc[id].nseg < 2
    /\ ~cancelEarly[id]

\* C11: two progress streams on the same job that have both ended emitted
\* the same final snapshot (status, progress, error and result).
C11_SameFinalSnapshot ==
  \A s1 \in DOMAIN streams, s2 \in DOMAIN streams :
    (streams[s1].pc = "ended" /\ streams[s2].pc = "ended" /\ streams[s1].id = streams[s2].id)
       => streams[s1].last = streams[s2].last

\* position of a status along queued -> processing -> terminal
StatusRank(st) == IF st = "queued" THEN 0 ELSE IF st = "processing" THEN 1 ELSE 2

\* snapshot b may follow snapshot a in a monotone stream
SnapshotFollows(a, b) ==
  /\ StatusRank(b.status) >= StatusRank(a.status)
  /\ (a.status \in TerminalStatus => b.status = a.status)
  /\ b.progress >= a.progress

\* C12: whenever a stream emits a snapshot after an earlier one, the status
\* has not moved backward along queued -> processing -> terminal, has not
\* changed from one terminal status to another, and progress has not decreased.
C12_SnapshotsMonotone ==
  [][\A s \in StreamIds :
       (streams[s].pc = "running" /\ streams'[s].pc = "l456" /\ streams[s].last # NoSnap)
          => SnapshotFollows(streams[s].last, streams'[s].last)]_vars

\* C13: when no cancel request is issued, a worker in which the engine raised
\* (at model load, at transcribe, or while iterating) handles the exception
\* in its except and finally blocks, and ends with status error, error equal
\* to the exception's message, no result and the artifact file deleted.
C13_EngineErrorBecomesJobError ==
  \A id \in TaskIds :
    wloc[id].exc # None =>
       /\ wpc[id] \in {"l373", "l374", "l377", "done"}
       /\ ~tasks[id].result.set
       /\ (wpc[id] \in {"l377", "done"} =>
              tasks[id].status = "error" /\ tasks[id].error = wloc[id].exc)
       /\ (wpc[id] = "done" => ~files[id] /\ unlinks[id] = 1)

\* the engine raised on the second segment and the worker has ended
C13_Witness ==
  \E id \in TaskIds :
    /\ wpc[id] = "done"
    /\ wloc[id].exc = "segment"
    /\ wloc[id].nseg = 1
    /\ tasks[id].status = "error"
    /\ tasks[id].error = "segment"
    /\ ~files[id]

\* id was handed out by uuid4() to an upload that was rejected for its size
Rejected(id) == id < nextId /\ ~Exists(id)

\* C14: an upload of more than MAX_UPLOAD_SIZE bytes answers 413 and creates
\* no registry entry, schedules no worker and leaves no temporary file; its
\* id never gets a registry entry, a worker or a file later either.
C14_OversizedUploadRejected ==
  /\ [](\A id \in DOMAIN tasks :
          Rejected(id) => wpc[id] = "none" /\ ~files[id] /\ unlinks[id] = 0)
  /\ [][\A size \in UploadSizes :
          (size > 10 * 1024 * 1024 /\ UploadFile(size)) =>
             /\ resp' = [op |-> "upload", id |-> nextId, code |-> 413]
             /\ tasks' = tasks
             /\ wpc' = wpc
             /\ files' = files]_vars
  /\ [][\A id \in DOMAIN tasks : Rejected(id) => tasks'[id] = NoTask]_vars

C14_Witness ==
  \E id \in DOMAIN tasks :
    /\ resp = [op |-> "upload", id |-> id, code |-> 413]
    /\ Rejected(id)
    /\ ~files[id]

\* C15: an accepted upload creates, in the step that answers 202, exactly one
\* registry entry under an id that had none, with status queued, progress 0
\* and no result or error, and starts the worker of that id; no other entry
\* and no other worker is touched, and a worker is started only by the upload
\* that created its id, so every job has exactly one worker execution.
C15_OneFreshJobAndWorkerPerUpload ==
  /\ [][\A size \in UploadSizes :
          (size <= 10 * 1024 * 1024 /\ UploadFile(size)) =>
             /\ ~Exists(nextId)
             /\ wpc[nextId] = "none"
             /\ tasks'[nextId] = [status |-> "queued", progress |-> 0,
                                   result |-> NoResult, error |-> None]
             /\ wpc'[nextId] = "l339"
             /\ resp' = [op |-> "upload", id |-> nextId, code |-> 202]
             /\ \A j \in DOMAIN tasks \ {nextId} :
                   tasks'[j] = tasks[j] /\ wpc'[j] = wpc[j]]_vars
  /\ [][\A id \in DOMAIN tasks :
          (wpc'[id] = "l339" /\ wpc[id] # "l339") => (wpc[id] = "none" /\ ~Exists(id))]_vars
  /\ [](\A id \in DOMAIN tasks : Exists(id) <=> wpc[id] # "none")

\* two uploads were accepted; the first job's worker has ended and was not
\* started again, the second job's worker is running
C15_Witness ==
  /\ Exists(1) /\ Exists(2)
  /\ wpc[1] = "done"
  /\ wpc[2] \notin {"none", "done"}
  /\ unlinks[1] = 1

\* C16: in the scenario (segments ending at 3, 6 and 10, duration 10, no
\* cancel, no engine error) the stored progress is 0 before the first
\* segment is accumulated, 30, 60 and 99 after the first, second and third,
\* and 100 from line 363 on; the finished job is completed and its
\* transcript is the three texts " a", " b", "c " joined and trimmed.
C16_ScenarioProgressAndTranscript ==
  \A id \in TaskIds :
    Exists(id) =>
       /\ tasks[id].progress =
             IF wpc[id] \in {"l364", "l377", "done"}
               THEN 100
               ELSE <<0, 30, 60, 99>>[Len(wloc[id].parts) + 1]
       /\ (wpc[id] = "done" =>
              /\ tasks[id].status = "completed"
              /\ tasks[id].error = None
              /\ tasks[id].result = [set |-> TRUE, transcript |-> <<"a", " ", "b", "c">>])

C16_Witness ==
  \E id \in TaskIds :
    /\ wpc[id] = "done"
    /\ Len(wloc[id].parts) = 3
    /\ tasks[id].progress = 100
    /\ tasks[id].status = "completed"

\* C17: the worker checks for cancellation once per segment, right after the
\* engine yielded it and before accumulating it (a yielded segment leads to
\* the check, and only a check that did not find the status cancelled leads
\* to accumulating); a check that finds the status cancelled changes neither
\* the job record nor the worker's accumulated parts and goes to the unlink
\* of line 377, from where the worker only deletes the artifact and ends.
\* A status cancelled stays cancelled while the worker is in the segment loop,
\* so after a cancel took effect only the segment past its check is still
\* accumulated.
C17_CancelCheckedBeforeEachSegment ==
  [][\A id \in TaskIds :
       /\ ((tasks[id].status = "cancelled" /\ wpc[id] \in {"l348", "l350", "l354"}
              /\ wpc'[id] \in {"l348", "l350", "l354"}) => tasks'[id].status = "cancelled")
       /\ (wloc'[id].nseg # wloc[id].nseg =>
              wloc'[id].nseg = wloc[id].nseg + 1 /\ wpc[id] = "l348" /\ wpc'[id] = "l350")
       /\ ((wpc[id] = "l350" /\ wpc'[id] # "l350") =>
              /\ wpc'[id] = (IF tasks[id].status = "cancelled" THEN "l377" ELSE "l354")
              /\ tasks'[id] = tasks[id]
              /\ wloc'[id] = wloc[id])
       /\ ((wpc'[id] = "l354" /\ wpc[id] # "l354") =>
              wpc[id] = "l350" /\ tasks[id].status # "cancelled")
       /\ (wloc'[id].parts # wloc[id].parts => wpc[id] = "l354")
       /\ ((wpc[id] = "l377" /\ wpc'[id] # "l377") =>
              wpc'[id] = "done" /\ tasks'[id] = tasks[id] /\ ~files'[id])]_vars

\* the check found the status cancelled: the segment yielded last was not
\* accumulated and the worker is at the unlink
C17_Witness ==
  \E id \in TaskIds :
    /\ wpc[id] = "l377"
    /\ tasks[id].status = "cancelled"
    /\ wloc[id].nseg = Len(wloc[id].parts) + 1
    /\ wloc[id].exc = None

\* C18: under fair scheduling of the workers, with an engine that yields at
\* most MaxSegs segments or raises, every job whose worker was scheduled
\* eventually has a terminal status with its worker ended, whatever cancel
\* requests and observers do.
C18_EveryJobTerminates ==
  \A id \in TaskIds :
    [](WorkerStarted(id) =>
         <>(wpc[id] = "done" /\ tasks[id].status \in TerminalStatus))

\* a job ended while a cancel request was answered and an observer finished
C18_Witness ==
  \E id \in TaskIds, s \in StreamIds :
    /\ wpc[id] = "done"
    /\ tasks[id].status \in TerminalStatus
    /\ cancelEarly[id]
    /\ streams[s].pc = "ended"

\* C19: the step that accumulates a segment stores min(99, 100 * end / total)
\* as progress when the total duration is positive and leaves progress as it
\* was otherwise; and progress is within [0, 99] whenever the status is
\* queued or processing.
C19_ProgressFormulaAndRange ==
  /\ [][\A id \in TaskIds :
          (wpc[id] = "l354" /\ wpc'[id] = "l348") =>
             tasks'[id].progress =
               IF wloc[id].dur > 0
                 THEN (IF (100 * wloc[id].seg.end) \div wloc[id].dur < 99
                         THEN (100 * wloc[id].seg.end) \div wloc[id].dur
                         ELSE 99)
                 ELSE tasks[id].progress]_vars
  /\ [](\A id \in TaskIds :
          (Exists(id) /\ tasks[id].status \in {"queued", "processing"}) =>
             (tasks[id].progress >= 0 /\ tasks[id].progress <= 99))

\* a segment ending at the total duration was accumulated: progress is capped
C19_Witness ==
  \E id \in TaskIds :
    /\ wpc[id] = "l348"
    /\ wloc[id].dur > 0
    /\ wloc[id].nseg > 0
    /\ wloc[id].seg.end = wloc[id].dur
    /\ tasks[id].status = "processing"
    /\ tasks[id].progress = 99

\* C20 as stated: every change of a job record is made by a step of that
\* job's worker (a cancel request writes no field the worker writes).
C20_OnlyWorkerWritesRecord ==
  [][\A id \in TaskIds :
       (Exists(id) /\ tasks'[id] # tasks[id]) => wpc'[id] # wpc[id]]_vars

\* C20 amended: progress, result and error are changed only by steps of the
\* job's worker; status is changed by the worker and by stop_task, which
\* writes the status cancelled and no other field.
C20_OnlyStatusHasTwoWriters ==
  [][\A id \in TaskIds :
       (Exists(id) /\ wpc'[id] = wpc[id] /\ tasks'[id] # tasks[id]) =>
          /\ loop = [kind |-> "stop", id |-> id]
          /\ tasks'[id] = [tasks[id] EXCEPT !.status = "cancelled"]]_vars

\* stop_task wrote the status of a job whose worker has not started
C20_Witness ==
  \E id \in TaskIds :
    /\ wpc[id] = "l339"
    /\ tasks[id].status = "cancelled"
    /\ resp = [op |-> "stop", id |-> id, code |-> 200]

\* C21: an upload answered 202 has its id in the registry; an id in the
\* registry stays in it over every step; and a cancel or progress request is
\* answered 404 only for an id that is not in the registry, hence never for
\* an id an upload returned.
C21_RegisteredJobIsNeverRemoved ==
  /\ [](\A id \in TaskIds : WorkerStarted(id) => Exists(id))
  /\ [][/\ \A id \in ReqIds :
             Exists(id) => (id \in DOMAIN tasks' /\ tasks'[id] # NoTask)
        /\ (resp' # resp /\ resp'.op = "upload" /\ resp'.code = 202) =>
             (resp'.id \in DOMAIN tasks' /\ tasks'[resp'.id] # NoTask)
        /\ (resp' # resp /\ resp'.op \in {"stop", "progress"} /\ resp'.code = 404) =>
             ~Exists(resp'.id)]_vars

\* a progress request made after the job's worker has ended found the job
C21_Witness ==
  \E id \in TaskIds :
    /\ wpc[id] = "done"
    /\ tasks[id].status = "completed"
    /\ tasks[id].result.set
    /\ resp = [op |-> "progress", id |-> id, code |-> 200]

\* r has the shape every job record has at every instant: a queued record is
\* untouched, a processing record has progress below 100 and neither result
\* nor error, progress 100 and a result come only after the write of
\* completed, and an error only after the write of error
ConsistentRecord(r) ==
  /\ (r.status = "queued" => r.progress = 0 /\ ~r.result.set /\ r.error = None)
  /\ (r.status = "processing" => r.progress < ProgressDone /\ ~r.result.set /\ r.error = None)
  /\ (r.progress = ProgressDone => r.status \in {"completed", "cancelled"})
  /\ (r.result.set => r.progress = ProgressDone /\ r.status \in {"completed", "cancelled"})
  /\ (r.error # None => r.status \in {"error", "cancelled"} /\ ~r.result.set)

\* every job record has that shape in every reachable state
RecordsAreConsistent == \A id \in TaskIds : Exists(id) => ConsistentRecord(tasks[id])

\* C22: every snapshot a stream has emitted is a value the job record can
\* have at one instant, and in particular pairs neither processing with
\* progress 100 nor completed with progress below 100 or a missing result.
C22_SnapshotIsOneInstant ==
  \A s \in StreamIds :
    streams[s].last # NoSnap =>
       /\ ConsistentRecord(streams[s].last)
       /\ ~(streams[s].last.status = "processing" /\ streams[s].last.progress = ProgressDone)
       /\ (streams[s].last.status = "completed" =>
              streams[s].last.progress = ProgressDone /\ streams[s].last.result.set)

====
